---- MODULE Spec2Model ----
(***************************************************************************)
(* A model of the Nebula Trips API (src/main.py): the credential hasher,   *)
(* the registration handler, the health probe, the two static handlers and *)
(* the per-connection deal streamer.                                       *)
(*                                                                         *)
(* Text is modelled as a sequence of characters: a hex string is a         *)
(* sequence of one-character strings, a password or an exception message   *)
(* a sequence of code points, bytes a sequence of 0..255.                  *)
(*                                                                         *)
(* register is a coroutine with no await in it, so one event loop runs the *)
(* lookup and the insert of a call back to back.  Nothing else orders      *)
(* them: the collection is shared by every server worker on the same       *)
(* database, and it sees the find_one and the insert of two workers in     *)
(* any order.  A worker here is one such event loop: it handles one        *)
(* register call at a time, and workers interleave between store calls.    *)
(***************************************************************************)
EXTENDS Integers, Sequences, FiniteSets, TLC

VARIABLES
    db,        \* the module-level handle imported from database: "None" or "ok"
    store,     \* the documents of the "authuser" collection
    pc,        \* per server worker: where its register call stands
    req,       \* per server worker: the RegisterRequest being handled
    resp,      \* per server worker: the reply of its last register call, with
               \* the email that call asked for
    calls,     \* per server worker: the store operations of its current call
    reply,     \* the last reply of /, /test or /auth/google
    now,       \* what int(datetime.utcnow().timestamp()) returns
    ws,        \* per WebSocket connection: the deals_streamer task
    hin,       \* the arguments of the hash_password call under study
    hout       \* its result

vars == <<db, store, pc, req, resp, calls, reply, now, ws, hin, hout>>

authVars  == <<db, store, pc, req, resp, calls, reply>>
dealVars  == <<now, ws>>
hashVars  == <<hin, hout>>

(***************************************************************************)
(* Bounds of the model.                                                    *)
(***************************************************************************)
MaxTicks   == 3      \* seconds the wall clock advances

Seeds   == {1, 2}           \* distinct outcomes of secrets.token_bytes
Workers == {"w1", "w2"}     \* server workers sharing the store
Conns   == {"c1", "c2"}     \* WebSocket connections

Emails      == {"a@b.com", "c@d.com"}
Passwords   == {<<104, 50>>, <<233>>}            \* "h2", "é"
ClockStarts == {497}

(***************************************************************************)
(* Program constants.                                                      *)
(***************************************************************************)
SaltBytes   == 16
DkLen       == 32
ErrCut      == 80
ListCut     == 10
BasePrice   == 199
PriceMod    == 500
SleepSecs   == 2
StatusOk    == 200
StatusDup   == 400
StatusNoDb  == 500

Min(a, b) == IF a < b THEN a ELSE b

(***************************************************************************)
(* Hexadecimal text: bytes.hex() and bytes.fromhex().                      *)
(***************************************************************************)
HexDigits == <<"0", "1", "2", "3", "4", "5", "6", "7",
               "8", "9", "a", "b", "c", "d", "e", "f">>
UpperDigits == <<"0", "1", "2", "3", "4", "5", "6", "7",
                 "8", "9", "A", "B", "C", "D", "E", "F">>
Whitespace == {" ", "\t", "\n"}

IsHexChar(c) == \E i \in 1..16 : HexDigits[i] = c \/ UpperDigits[i] = c

HexVal(c) == (CHOOSE i \in 1..16 : HexDigits[i] = c \/ UpperDigits[i] = c) - 1

\* bytes.hex(): two lowercase digits per byte, high nibble first
ToHex(bytes) ==
    [i \in 1..(2 * Len(bytes)) |->
        IF i % 2 = 1 THEN HexDigits[(bytes[(i + 1) \div 2] \div 16) + 1]
                     ELSE HexDigits[(bytes[i \div 2] % 16) + 1]]

\* bytes.fromhex(): whitespace between bytes is skipped, each byte is two
\* hex digits of either case; anything else raises ValueError
RECURSIVE FromHex(_)
FromHex(s) ==
    IF s = <<>> THEN [ok |-> TRUE, bytes |-> <<>>]
    ELSE IF Head(s) \in Whitespace THEN FromHex(Tail(s))
    ELSE IF Len(s) >= 2 /\ IsHexChar(s[1]) /\ IsHexChar(s[2])
         THEN LET rest == FromHex(SubSeq(s, 3, Len(s)))
              IN  [ok    |-> rest.ok,
                   bytes |-> IF rest.ok
                             THEN <<16 * HexVal(s[1]) + HexVal(s[2])>> \o rest.bytes
                             ELSE <<>>]
         ELSE [ok |-> FALSE, bytes |-> <<>>]

\* str.encode("utf-8") for code points below 0x800
RECURSIVE EncodeUtf8(_)
EncodeUtf8(s) ==
    IF s = <<>> THEN <<>>
    ELSE (IF Head(s) < 128 THEN <<Head(s)>>
          ELSE <<192 + (Head(s) \div 64), 128 + (Head(s) % 64)>>)
         \o EncodeUtf8(Tail(s))

\* hashlib.scrypt(password, salt=salt, n=2**14, r=8, p=1, dklen=dklen): a
\* deterministic function of the password bytes and the salt bytes giving
\* dklen bytes.  The mixing is a stand-in for the library's; only its
\* signature (what it reads, how much it returns) is the program's.
RECURSIVE Mix(_, _)
Mix(acc, s) == IF s = <<>> THEN acc
               ELSE Mix((acc * 31 + Head(s) + 7) % 65521, Tail(s))

Scrypt(password, salt, dklen) ==
    LET seed == Mix(Mix(17, password) + 1, salt)
    IN  [i \in 1..dklen |-> (seed * (2 * i + 1) + i * i) % 256]

\* secrets.token_bytes(n): the byte strings the random source may return
TokenBytes(n) ==
    { [i \in 1..n |-> (k * 89 + i * 37) % 256] : k \in Seeds }

\* the optional salt_hex argument
NoSalt       == [none |-> TRUE,  hex |-> <<>>]
SomeSalt(s)  == [none |-> FALSE, hex |-> s]

\* the supplied salt ignored, a fresh one drawn every time
hash_password_fresh(password, salt_hex, rnd) ==
    [exc  |-> "",
     salt |-> ToHex(rnd),
     key  |-> ToHex(Scrypt(EncodeUtf8(password), rnd, DkLen))]

\* hash_password(password, salt_hex); rnd is what secrets.token_bytes(16)
\* returns when it is called
hash_password(password, salt_hex, rnd) ==
    LET parsed == IF salt_hex.none THEN [ok |-> TRUE, bytes |-> rnd]
                  ELSE FromHex(salt_hex.hex)
    IN  IF ~parsed.ok
        THEN [exc |-> "ValueError", salt |-> <<>>, key |-> <<>>]
        ELSE [exc  |-> "",
              salt |-> ToHex(parsed.bytes),
              key  |-> ToHex(Scrypt(EncodeUtf8(password), parsed.bytes, DkLen))]

(***************************************************************************)
(* The document store behind the handle (module database).                 *)
(***************************************************************************)
\* db["authuser"].find_one({"email": email}): truthy iff a document matches
FindOne(coll, email) == \E d \in coll : d.email = email

\* create_document("authuser", doc): inserts doc under a fresh identifier
\* and returns that identifier
create_document(coll, doc) ==
    LET newId == Cardinality(coll) + 1
    IN  [coll |-> coll \cup {[id            |-> newId,
                              email         |-> doc.email,
                              password_salt |-> doc.password_salt,
                              password_hash |-> doc.password_hash,
                              provider      |-> doc.provider]},
         id   |-> newId]

(***************************************************************************)
(* POST /auth/register                                                     *)
(***************************************************************************)
NoReq  == [email |-> "", password |-> <<>>]
NoResp == [to |-> "", status |-> 0, detail |-> "", id |-> 0, email |-> ""]

\* raise HTTPException(status_code=code, detail=text), answering a call for e
HTTPException(e, code, text) ==
    [to |-> e, status |-> code, detail |-> text, id |-> 0, email |-> ""]

\* the handle check left out
HandleMissing_never(handle) == FALSE

\* line 80: db is None
HandleMissing(handle) == handle = "None"

\* the result of the lookup ignored
Existing_never(coll, email) == FALSE

\* lines 83-84: a document with this email is already in the collection
Existing(coll, email) == FindOne(coll, email)

\* the document written with another provider
NewUser_google(email, h) ==
    [email         |-> email,
     password_salt |-> h.salt,
     password_hash |-> h.key,
     provider      |-> "google"]

\* lines 88-93: the document of a new user
NewUser(email, h) ==
    [email         |-> email,
     password_salt |-> h.salt,
     password_hash |-> h.key,
     provider      |-> "email"]

\* lines 80-85: the handle check, then the uniqueness lookup
register_lookup(w, e, p) ==
    /\ pc[w] = "idle"
    /\ IF HandleMissing(db)
       THEN /\ resp'  = [resp EXCEPT ![w] = HTTPException(e, StatusNoDb, "Database not configured")]
            /\ calls' = [calls EXCEPT ![w] = <<>>]
            /\ UNCHANGED <<pc, req>>
       ELSE /\ calls' = [calls EXCEPT ![w] = <<"find_one">>]
            /\ IF Existing(store, e)
               THEN /\ resp' = [resp EXCEPT ![w] = HTTPException(e, StatusDup, "Email already registered")]
                    /\ UNCHANGED <<pc, req>>
               ELSE /\ pc'   = [pc EXCEPT ![w] = "insert"]
                    /\ req'  = [req EXCEPT ![w] = [email |-> e, password |-> p]]
                    /\ resp' = [resp EXCEPT ![w] = NoResp]
    /\ UNCHANGED <<db, store, reply, dealVars, hashVars>>

\* lines 87-95: hash the password under a fresh salt, insert, reply
register_insert(w) ==
    /\ pc[w] = "insert"
    /\ \E rnd \in TokenBytes(SaltBytes) :
         LET h   == hash_password(req[w].password, NoSalt, rnd)
             ins == create_document(store, NewUser(req[w].email, h))
         IN  /\ store' = ins.coll
             /\ resp'  = [resp EXCEPT ![w] =
                             [to |-> req[w].email, status |-> StatusOk, detail |-> "",
                              id |-> ins.id, email |-> req[w].email]]
    /\ calls' = [calls EXCEPT ![w] = Append(@, "create_document")]
    /\ pc'    = [pc EXCEPT ![w] = "idle"]
    /\ req'   = [req EXCEPT ![w] = NoReq]
    /\ UNCHANGED <<db, reply, dealVars, hashVars>>

(***************************************************************************)
(* GET /, GET /auth/google                                                 *)
(***************************************************************************)
root ==
    /\ reply' = [route |-> "/", status |-> StatusOk,
                 body |-> [ok |-> TRUE, name |-> "Nebula Trips API"]]
    /\ UNCHANGED <<db, store, pc, req, resp, calls, dealVars, hashVars>>

google_demo ==
    /\ reply' = [route |-> "/auth/google", status |-> StatusOk,
                 body |-> [provider |-> "google", status |-> "ok",
                           user |-> [email |-> "demo@nebula.trips"]]]
    /\ UNCHANGED <<db, store, pc, req, resp, calls, dealVars, hashVars>>

(***************************************************************************)
(* GET /test                                                               *)
(***************************************************************************)
MaxNames == 12       \* longest collection list the store returns
MaxMsg   == 90       \* longest exception message

CollName(i) == <<99, 48 + i>>
NameList(n) == [i \in 1..n |-> CollName(n + 1 - i)]
Message(n)  == [i \in 1..n |-> 97 + (i % 26)]

\* what db.list_collection_names() may do
ListOutcomes ==
    { [raises |-> FALSE, names |-> NameList(n), msg |-> <<>>] :
          n \in {0, 3, ListCut, ListCut + 1, MaxNames} }
    \cup
    { [raises |-> TRUE, names |-> <<>>, msg |-> Message(n)] :
          n \in {0, 5, ErrCut, ErrCut + 1, MaxMsg} }

BriefOutcomes ==
    { [raises |-> FALSE, names |-> NameList(3), msg |-> <<>>],
      [raises |-> TRUE, names |-> <<>>, msg |-> Message(5)] }

\* s[:n]
Slice(s, n) == SubSeq(s, 1, Min(n, Len(s)))

\* a status text: a fixed part followed by the interpolated detail
Text(fixed, detail) == [fixed |-> fixed, detail |-> detail]

SetOrNot(flag) == IF flag THEN Text("Set", <<>>) ELSE Text("Not Set", <<>>)

\* lines 50-57: the report before anything is known
Report0 ==
    [backend           |-> Text("Running", <<>>),
     database          |-> Text("Not Available", <<>>),
     database_url      |-> Text("Not Set", <<>>),
     database_name     |-> Text("Not Set", <<>>),
     connection_status |-> "Not Connected",
     collections       |-> <<>>]

\* the names cut one too late
OnListed_late(r, names) ==
    [status |-> StatusOk,
     body   |-> [r EXCEPT !.collections       = Slice(names, ListCut + 1),
                          !.database          = Text("Connected & Working", <<>>),
                          !.connection_status = "Connected"]]

\* lines 64-67: list_collection_names() returned names
OnListed(r, names) ==
    [status |-> StatusOk,
     body   |-> [r EXCEPT !.collections       = Slice(names, ListCut),
                          !.database          = Text("Connected & Working", <<>>),
                          !.connection_status = "Connected"]]

\* the message not cut
OnListError_whole(r, msg) ==
    [status |-> StatusOk,
     body   |-> [r EXCEPT !.database = Text("Connected but Error: ", msg)]]

\* lines 68-69: list_collection_names() raised an exception whose str() is msg
OnListError(r, msg) ==
    [status |-> StatusOk,
     body   |-> [r EXCEPT !.database = Text("Connected but Error: ", Slice(msg, ErrCut))]]

\* lines 50-74: the report; the emoji that starts each status text is left out
TestDatabaseReport(handle, environ, lc) ==
    IF handle # "None"
    THEN LET r1 == [Report0 EXCEPT !.database      = Text("Available", <<>>),
                                   !.database_url  = SetOrNot(environ.url),
                                   !.database_name = SetOrNot(environ.name)]
         IN  IF ~lc.raises THEN OnListed(r1, lc.names)
                           ELSE OnListError(r1, lc.msg)
    ELSE [status |-> StatusOk,
          body   |-> [Report0 EXCEPT
                        !.database = Text("Available but not initialized", <<>>)]]

\* the values os.getenv may find for DATABASE_URL and DATABASE_NAME
Environs == [url : BOOLEAN, name : BOOLEAN]

\* the handler, for a listing outcome among outcomes and an environment
\* among environs; the reply keeps both for the properties to refer to
test_database(outcomes, environs) ==
    /\ \E lc \in outcomes, environ \in environs :
         LET out == TestDatabaseReport(db, environ, lc)
         IN  reply' = [route |-> "/test", status |-> out.status,
                       body |-> out.body, listing |-> lc, environ |-> environ]
    /\ UNCHANGED <<db, store, pc, req, resp, calls, dealVars, hashVars>>


(***************************************************************************)
(* WebSocket /realtime/deals: one deals_streamer task per connection.      *)
(* The arrow of the route text is written "->" here.                       *)
(***************************************************************************)
cities == << <<"NYC", "Paris">>, <<"Tokyo", "Seoul">>, <<"Berlin", "Rome">>,
             <<"SF", "Honolulu">>, <<"Dubai", "Sydney">>, <<"LA", "Mexico City">> >>

\* f"{dep} -> {arr}"
RouteText(dep, arr) == <<dep, " -> ", arr>>

\* line 112: the pair picked by a clock reading t
RouteAt(t) == cities[(t % Len(cities)) + 1]

\* line 113: the price given by a clock reading t
PriceAt(t) == BasePrice + (t % PriceMod)

\* the price taken from the clock once more at the send
DealFrame_reread(task, at) ==
    [at     |-> at,
     tRoute |-> task.tRoute,
     tPrice |-> task.tPrice,
     text   |-> [type    |-> "deal",
                 payload |-> [route       |-> RouteText(task.dep, task.arr),
                              destination |-> task.arr,
                              price       |-> PriceAt(at)]]]

\* lines 114-115: the frame a task sends from its locals; at is the clock at
\* the send, kept with the two earlier readings beside the text
DealFrame(task, at) ==
    [at     |-> at,
     tRoute |-> task.tRoute,
     tPrice |-> task.tPrice,
     text   |-> [type    |-> "deal",
                 payload |-> [route       |-> RouteText(task.dep, task.arr),
                              destination |-> task.arr,
                              price       |-> task.price]]]

NoConn ==
    [pc      |-> "idle",     \* idle, accept, route, price, send, sleep, closed
     gone    |-> FALSE,      \* the client has disconnected
     escaped |-> FALSE,      \* an exception left deals_streamer
     openAt  |-> -1,         \* clock value when accept returned
     tRoute  |-> -1,         \* clock value read on line 112
     tPrice  |-> -1,         \* clock value read on line 113
     dep     |-> "",
     arr     |-> "",
     price   |-> 0,
     wakeAt  |-> 0,
     frames  |-> {}]         \* the frames sent so far, each with its clock reads

\* the wall clock advances by a second
Tick ==
    /\ \E s \in ClockStarts : s <= now /\ now < s + MaxTicks
    /\ now' = now + 1
    /\ UNCHANGED <<ws, authVars, hashVars>>

\* lines 121-123: a client opens a connection and the task starts
realtime_deals(c) ==
    /\ ws[c].pc = "idle"
    /\ ws' = [ws EXCEPT ![c].pc = "accept"]
    /\ UNCHANGED <<now, authVars, hashVars>>

\* the client goes away while its task is alive
ClientDisconnect(c) ==
    /\ ws[c].pc \notin {"idle", "closed"}
    /\ ~ws[c].gone
    /\ ws' = [ws EXCEPT ![c].gone = TRUE]
    /\ UNCHANGED <<now, authVars, hashVars>>

\* line 106, before the try: await websocket.accept().  With the client
\* gone the call either raises, and nothing catches it, or returns and the
\* loss shows at the first send.
deals_streamer_accept(c) ==
    /\ ws[c].pc = "accept"
    /\ \/ ws' = [ws EXCEPT ![c].pc = "route", ![c].openAt = now]
       \/ /\ ws[c].gone
          /\ ws' = [ws EXCEPT ![c].pc = "closed", ![c].escaped = TRUE]
    /\ UNCHANGED <<now, authVars, hashVars>>

\* line 112: first clock read, picks the city pair
deals_streamer_route(c) ==
    /\ ws[c].pc = "route"
    /\ LET pair == RouteAt(now)
       IN  ws' = [ws EXCEPT ![c].pc = "price", ![c].tRoute = now,
                            ![c].dep = pair[1], ![c].arr = pair[2]]
    /\ UNCHANGED <<now, authVars, hashVars>>

\* line 113: second clock read, gives the price
deals_streamer_price(c) ==
    /\ ws[c].pc = "price"
    /\ ws' = [ws EXCEPT ![c].pc = "send", ![c].tPrice = now,
                        ![c].price = PriceAt(now)]
    /\ UNCHANGED <<now, authVars, hashVars>>

\* lines 114-118: build the payload and send it; a send to a client that
\* is gone raises WebSocketDisconnect, which the handler catches
deals_streamer_send(c) ==
    /\ ws[c].pc = "send"
    /\ IF ws[c].gone
       THEN ws' = [ws EXCEPT ![c].pc = "closed",
                            ![c].tRoute = -1, ![c].tPrice = -1,
                            ![c].dep = "", ![c].arr = "", ![c].price = 0]
       ELSE ws' = [ws EXCEPT ![c].pc = "sleep",
                            ![c].wakeAt = now + SleepSecs,
                            ![c].tRoute = -1, ![c].tPrice = -1,
                            ![c].dep = "", ![c].arr = "", ![c].price = 0,
                            ![c].frames = @ \cup {DealFrame(ws[c], now)}]
    /\ UNCHANGED <<now, authVars, hashVars>>

\* line 116: await asyncio.sleep(2) returns once two seconds have passed
deals_streamer_wake(c) ==
    /\ ws[c].pc = "sleep"
    /\ now >= ws[c].wakeAt
    /\ ws' = [ws EXCEPT ![c].pc = "route", ![c].wakeAt = 0]
    /\ UNCHANGED <<now, authVars, hashVars>>

(***************************************************************************)
(* hash_password called directly: once, once more with the same            *)
(* arguments, and once with the salt the first call returned.              *)
(***************************************************************************)
NoHash == [exc |-> "", salt |-> <<>>, key |-> <<>>]

Upper(s) == [i \in 1..Len(s) |->
               IF \E k \in 1..16 : HexDigits[k] = s[i]
               THEN UpperDigits[CHOOSE k \in 1..16 : HexDigits[k] = s[i]]
               ELSE s[i]]

\* the salt_hex arguments tried: none, well-formed 16-byte salts in lower
\* and upper case and with a blank between bytes, shorter and longer salts,
\* and text that is not hex
SaltArgs ==
    {NoSalt}
    \cup { SomeSalt(ToHex(b)) : b \in TokenBytes(SaltBytes) }
    \cup { SomeSalt(Upper(ToHex(b))) : b \in TokenBytes(SaltBytes) }
    \cup { SomeSalt(<<"0", "a", " ">> \o ToHex(b)) : b \in TokenBytes(SaltBytes - 1) }
    \cup { SomeSalt(<<"a", "b">>), SomeSalt(<<"A", "b", "0", "1">>), SomeSalt(<<"a", "b", "c">>),
           SomeSalt(<<"z", "z">>), SomeSalt(<<"a", " ", "b">>) }
    \cup { SomeSalt(ToHex(b)) : b \in TokenBytes(SaltBytes + 1) }

HashPasswords == Passwords \cup {<<>>, <<104, 51>>}

hash_first ==
    /\ hout.n = 0
    /\ \E rnd \in TokenBytes(SaltBytes) :
         hout' = [hout EXCEPT !.n = 1,
                              !.first = hash_password(hin.password, hin.salt_hex, rnd)]
    /\ UNCHANGED <<hin, authVars, dealVars>>

hash_again ==
    /\ hout.n = 1
    /\ \E rnd \in TokenBytes(SaltBytes) :
         hout' = [hout EXCEPT !.n = 2, !.kind = "again",
                              !.second = hash_password(hin.password, hin.salt_hex, rnd)]
    /\ UNCHANGED <<hin, authVars, dealVars>>

hash_verify ==
    /\ hout.n = 1
    /\ hout.first.exc = ""
    /\ \E rnd \in TokenBytes(SaltBytes), p \in HashPasswords :
         hout' = [hout EXCEPT !.n = 2, !.kind = "verify", !.tried = p,
                              !.second = hash_password(p, SomeSalt(hout.first.salt), rnd)]
    /\ UNCHANGED <<hin, authVars, dealVars>>

(***************************************************************************)
(* Initial states and specifications.                                      *)
(***************************************************************************)
\* a document as register writes it
UserDoc(i, e, p, rnd) ==
    LET h == hash_password(p, NoSalt, rnd)
    IN  [id |-> i, email |-> e, password_salt |-> h.salt,
         password_hash |-> h.key, provider |-> "email"]

\* the collection when the service starts: empty, or holding a document
\* of an earlier run
InitStores ==
    {{}, {UserDoc(1, "a@b.com", <<233>>, [i \in 1..SaltBytes |-> (i * 11) % 256])}}

NoCall == [n |-> 0, kind |-> "", tried |-> <<>>, first |-> NoHash, second |-> NoHash]

\* the whole service as it starts
Init ==
    /\ db \in {"None", "ok"}
    /\ store \in InitStores
    /\ pc = [w \in Workers |-> "idle"]
    /\ req = [w \in Workers |-> NoReq]
    /\ resp = [w \in Workers |-> NoResp]
    /\ calls = [w \in Workers |-> <<>>]
    /\ reply = [route |-> "", status |-> 0, body |-> <<>>]
    /\ now \in ClockStarts
    /\ ws = [c \in Conns |-> NoConn]
    /\ hin = [password |-> <<>>, salt_hex |-> NoSalt]
    /\ hout = NoCall

\* the same start with the clock held at one value: for the HTTP handlers
InitHttp ==
    /\ db \in {"None", "ok"}
    /\ store \in InitStores
    /\ pc = [w \in Workers |-> "idle"]
    /\ req = [w \in Workers |-> NoReq]
    /\ resp = [w \in Workers |-> NoResp]
    /\ calls = [w \in Workers |-> <<>>]
    /\ reply = [route |-> "", status |-> 0, body |-> <<>>]
    /\ now = 0
    /\ ws = [c \in Conns |-> NoConn]
    /\ hin = [password |-> <<>>, salt_hex |-> NoSalt]
    /\ hout = NoCall

\* the start with the handle configured and the collection empty: for the
\* streamer
InitDeals ==
    /\ db = "ok"
    /\ store = {}
    /\ pc = [w \in Workers |-> "idle"]
    /\ req = [w \in Workers |-> NoReq]
    /\ resp = [w \in Workers |-> NoResp]
    /\ calls = [w \in Workers |-> <<>>]
    /\ reply = [route |-> "", status |-> 0, body |-> <<>>]
    /\ now \in ClockStarts
    /\ ws = [c \in Conns |-> NoConn]
    /\ hin = [password |-> <<>>, salt_hex |-> NoSalt]
    /\ hout = NoCall

\* any arguments for the first hash_password call: for the hasher
InitHashing ==
    /\ db = "ok"
    /\ store = {}
    /\ pc = [w \in Workers |-> "idle"]
    /\ req = [w \in Workers |-> NoReq]
    /\ resp = [w \in Workers |-> NoResp]
    /\ calls = [w \in Workers |-> <<>>]
    /\ reply = [route |-> "", status |-> 0, body |-> <<>>]
    /\ now = 0
    /\ ws = [c \in Conns |-> NoConn]
    /\ hin \in [password : HashPasswords, salt_hex : SaltArgs]
    /\ hout = NoCall

NextAuth ==
    \/ \E w \in Workers, e \in Emails, p \in Passwords : register_lookup(w, e, p)
    \/ \E w \in Workers : register_insert(w)
    \/ root
    \/ google_demo
    \/ test_database(BriefOutcomes, {[url |-> TRUE, name |-> FALSE]})

\* the probe under every listing outcome and environment
NextProbe ==
    \/ root
    \/ google_demo
    \/ test_database(ListOutcomes, Environs)

NextDeals ==
    \/ Tick
    \/ \E c \in Conns : realtime_deals(c)
    \/ \E c \in Conns : ClientDisconnect(c)
    \/ \E c \in Conns : deals_streamer_accept(c)
    \/ \E c \in Conns : deals_streamer_route(c)
    \/ \E c \in Conns : deals_streamer_price(c)
    \/ \E c \in Conns : deals_streamer_send(c)
    \/ \E c \in Conns : deals_streamer_wake(c)

NextHashing ==
    \/ hash_first
    \/ hash_again
    \/ hash_verify

Next == NextAuth \/ NextProbe \/ NextDeals

\* the whole service
Spec == Init /\ [][Next]_vars

\* the HTTP handlers alone, the probe under all its inputs, the streamer
\* alone, the hasher alone
SpecAuth    == InitHttp /\ [][NextAuth]_vars
SpecProbe   == InitHttp /\ [][NextProbe]_vars
SpecDeals   == InitDeals /\ [][NextDeals]_vars
SpecHashing == InitHashing /\ [][NextHashing]_vars

(***************************************************************************)
(* Properties of the registration handler.                                 *)
(***************************************************************************)
\* worker w takes the lookup step of a register call in this step
Called(w) == pc[w] = "idle" /\ (resp'[w] # resp[w] \/ pc'[w] # pc[w])

\* the email that call asks for
CalledFor(w) == IF pc'[w] = "insert" THEN req'[w].email ELSE resp'[w].to

\* worker w takes the insert step of its register call in this step
Inserted(w) == pc[w] = "insert" /\ pc'[w] = "idle"

Succeeded(r, e) == r.status = StatusOk /\ r.email = e
Conflict(r) == r.status = StatusDup /\ r.detail = "Email already registered"
Unavailable(r) == r.status = StatusNoDb /\ r.detail = "Database not configured"

\* C1: the authuser collection never holds two documents with the same
\* email, whatever the interleaving of register calls.
C1_EmailUnique ==
    \A d1 \in store, d2 \in store : d1.email = d2.email => d1 = d2

\* C2: with the handle configured, a register call for an email that has no
\* document passes the lookup, and its insert adds exactly one document
\* and replies {id, email}; a call for an email that an earlier call was
\* answered with success for replies 400 "Email already registered" and
\* adds nothing.
C2_RegisterTwice ==
    [][\A w \in Workers :
         /\ (Called(w) /\ db # "None" /\ ~FindOne(store, CalledFor(w)))
               => pc'[w] = "insert" /\ store' = store
         /\ Inserted(w)
               => /\ Cardinality(store') = Cardinality(store) + 1
                  /\ store \subseteq store'
                  /\ Succeeded(resp'[w], req[w].email)
                  /\ \E d \in store' \ store :
                        d.id = resp'[w].id /\ d.email = req[w].email
         /\ (Called(w) /\ \E v \in Workers : Succeeded(resp[v], CalledFor(w)))
               => Conflict(resp'[w]) /\ pc'[w] = "idle" /\ store' = store
      ]_vars

\* a second call for an email was refused after a first one succeeded
C2_Witness ==
    \E v \in Workers, w \in Workers :
        /\ Succeeded(resp[v], resp[w].to)
        /\ Conflict(resp[w])
        /\ Cardinality({d \in store : d.email = resp[w].to}) = 1

\* C3: without a handle every register call replies 500 "Database not
\* configured", whatever the email, and makes no store call: no lookup, no
\* insert.
C3_NoHandle ==
    db = "None" =>
        /\ store \in InitStores
        /\ \A w \in Workers :
              /\ pc[w] = "idle"
              /\ calls[w] = <<>>
              /\ resp[w] = NoResp \/ Unavailable(resp[w])

\* without a handle, a call for an email the collection holds got the 500
C3_Witness ==
    /\ db = "None"
    /\ \E w \in Workers :
          /\ Unavailable(resp[w])
          /\ FindOne(store, resp[w].to)
          /\ calls[w] = <<>>

ReportFields ==
    {"backend", "database", "database_url", "database_name",
     "connection_status", "collections"}

\* s is the first Min(n, Len(full)) elements of full, in order
IsPrefixCut(s, full, n) ==
    /\ Len(s) = Min(n, Len(full))
    /\ \A i \in 1..Len(s) : s[i] = full[i]

\* C5: the probe always answers with success and a report of the six
\* fields whose backend says running; when the listing raised, the text
\* after "Connected but Error: " is the exception message cut to its first
\* 80 characters.
C5_ProbeNeverFails ==
    reply.route = "/test" =>
        /\ reply.status = StatusOk
        /\ DOMAIN reply.body = ReportFields
        /\ reply.body.backend = Text("Running", <<>>)
        /\ (db # "None" /\ reply.listing.raises) =>
              /\ reply.body.database.fixed = "Connected but Error: "
              /\ Len(reply.body.database.detail) <= ErrCut
              /\ IsPrefixCut(reply.body.database.detail, reply.listing.msg, ErrCut)

\* the listing raised with a message longer than 80 characters
C5_Witness ==
    /\ reply.route = "/test"
    /\ db # "None"
    /\ reply.listing.raises
    /\ Len(reply.listing.msg) > ErrCut
    /\ Len(reply.body.database.detail) = ErrCut

\* C10: connection_status is "Connected" exactly when the handle is there
\* and the listing returned; then collections is the first min(10, n)
\* names in the order returned; otherwise connection_status is "Not
\* Connected" and collections is empty.  Never more than 10 names.
C10_ConnectionStatus ==
    reply.route = "/test" =>
        LET listed == db # "None" /\ ~reply.listing.raises
        IN  /\ reply.body.connection_status = "Connected" <=> listed
            /\ reply.body.connection_status \in {"Connected", "Not Connected"}
            /\ listed => IsPrefixCut(reply.body.collections, reply.listing.names, ListCut)
            /\ ~listed => reply.body.collections = <<>>
            /\ Len(reply.body.collections) <= ListCut

\* the listing returned more than 10 names
C10_Witness ==
    /\ reply.route = "/test"
    /\ db # "None"
    /\ ~reply.listing.raises
    /\ Len(reply.listing.names) > ListCut
    /\ reply.body.connection_status = "Connected"
    /\ Len(reply.body.collections) = ListCut

(***************************************************************************)
(* Properties of the deal streamer.                                        *)
(***************************************************************************)
Frames(c) == ws[c].frames

Payload(f) == f.text.payload

\* the payload the formula gives for timestamp t
DealAt(t) ==
    [route       |-> RouteText(cities[(t % 6) + 1][1], cities[(t % 6) + 1][2]),
     destination |-> cities[(t % 6) + 1][2],
     price       |-> 199 + (t % 500)]

\* C6: every frame sent is the deal of one timestamp t: its route is pair
\* t mod 6, its destination that pair's arrival city, its price
\* 199 + (t mod 500).  Any t at all is accepted here, so a frame that fails
\* matches no timestamp.
C6_OneTimestamp ==
    \A c \in Conns : \A f \in Frames(c) :
        \E t \in 0..(f.at + 6 * 500) : Payload(f) = DealAt(t)

Phase(task) ==
    CASE task.pc = "idle"   -> "None"
      [] task.pc = "accept" -> "Connecting"
      [] task.pc = "closed" -> "Closed"
      [] OTHER              -> "Streaming"

\* C7: a connection goes Connecting -> Streaming -> Closed and nothing
\* else; no frame is sent before the handshake is accepted or after
\* Closed; sends and waits alternate; the task leaves its life only when
\* the client is gone, and no error leaves the handler.
C7_Lifecycle ==
    [][\A c \in Conns :
         LET a == Phase(ws[c])
             b == Phase(ws'[c])
         IN  /\ a # b => <<a, b>> \in { <<"None", "Connecting">>,
                                        <<"Connecting", "Streaming">>,
                                        <<"Connecting", "Closed">>,
                                        <<"Streaming", "Closed">> }
             /\ b = "Closed" /\ a # "Closed" => ws[c].gone
             /\ ~ws'[c].escaped
             /\ ws'[c].frames # ws[c].frames
                   => a = "Streaming" /\ ws[c].pc = "send" /\ ws'[c].pc = "sleep"
             /\ ws[c].pc = "sleep" /\ ws'[c].pc # "sleep"
                   => ws'[c].pc = "route" /\ now >= ws[c].wakeAt
      ]_vars

\* client d is connected during second t: it was sent a frame less than
\* the waiting time before t, and its task is alive and its client there
OpenAt(d, t) ==
    /\ \E g \in Frames(d) : g.at < t /\ t < g.at + SleepSecs
    /\ Phase(ws[d]) = "Streaming"
    /\ ~ws[d].gone

IsLowerHex(s) == \A i \in 1..Len(s) : \E k \in 1..16 : HexDigits[k] = s[i]

\* the first call was given a salt
Supplied == ~hin.salt_hex.none

\* C9: two calls with the same password and supplied salt return the same
\* pair; hashing the password again under the salt a call returned gives
\* that call's pair; and every result is a 32-character salt and a
\* 64-character key.  Only calls that return are looked at.
C9_Hashing ==
    (hout.n >= 1 /\ hout.first.exc = "") =>
        /\ Len(hout.first.salt) = 2 * 16
        /\ Len(hout.first.key) = 2 * 32
        /\ (hout.kind = "again" /\ Supplied) => hout.second = hout.first
        /\ (hout.kind = "verify" /\ hout.tried = hin.password) => hout.second = hout.first

\* C9 as amended: the salt is 32 characters when the function drew it or
\* when 16 bytes were supplied, and otherwise the lowercase hex of the bytes
\* supplied, two characters a byte; the key is always 64 characters.
C9_HashingAmended ==
    (hout.n >= 1) =>
        /\ hout.first.exc = "" <=> (hin.salt_hex.none \/ FromHex(hin.salt_hex.hex).ok)
        /\ hout.first.exc = "" =>
              /\ Len(hout.first.key) = 2 * 32
              /\ IsLowerHex(hout.first.key) /\ IsLowerHex(hout.first.salt)
              /\ ~Supplied => /\ Len(hout.first.salt) = 2 * 16
                              /\ FromHex(hout.first.salt).bytes \in TokenBytes(16)
              /\ Supplied => /\ FromHex(hout.first.salt) = FromHex(hin.salt_hex.hex)
                             /\ Len(hout.first.salt) = 2 * Len(FromHex(hin.salt_hex.hex).bytes)
              /\ (Supplied /\ Len(FromHex(hin.salt_hex.hex).bytes) = 16)
                    => Len(hout.first.salt) = 2 * 16
              /\ (hout.kind = "again" /\ Supplied) => hout.second = hout.first
              /\ (hout.kind = "verify" /\ hout.tried = hin.password)
                    => hout.second = hout.first

\* a password hashed as register does, then hashed again under the salt
\* that was returned
C9_Witness ==
    /\ hout.n = 2
    /\ hout.kind = "verify"
    /\ ~Supplied
    /\ hout.tried = hin.password
    /\ hout.second = hout.first
    /\ Len(hout.first.salt) = 32


====
